---- MODULE Spec2Model ----
(***************************************************************************)
(* maxmiize::video::VideoEngine (Sources/Core/Video/VideoEngine.cpp/.hpp). *)
(*                                                                         *)
(* The engine is a single object with two private members, initialized_    *)
(* and metadata_.  Each public method is one action.  A call is observed   *)
(* through `call` (method and arguments), `result` (the bool it returned), *)
(* `returnedMetadata`, `returnedVersion`, `out` (the line it logged) and   *)
(* `buffer` (the caller's frame buffer after the call).                    *)
(***************************************************************************)
EXTENDS Integers, Sequences, FiniteSets, TLC

VARIABLES
    initialized,        \* VideoEngine::initialized_
    metadata,           \* VideoEngine::metadata_
    call,               \* the last method called, with its arguments
    result,             \* the bool returned by the last bool-returning call
    returnedMetadata,   \* the copy returned by the last getMetadata()
    returnedVersion,    \* the string returned by the last getVersion()
    out,                \* the last line written to std::cout / std::cerr
    buffer,             \* the caller's buffer after the last extractFrame
    everInitialized,    \* history: initialize() has returned true
    loadedPath,         \* history: path of the last loadVideo that returned true
    previousPath,       \* history: path of the successful loadVideo before that
    loadedMeta          \* history: metadata_ as that loadVideo left it

vars == <<initialized, metadata, call, result, returnedMetadata, returnedVersion,
          out, buffer, everInitialized, loadedPath, previousPath, loadedMeta>>

engine == <<initialized, metadata>>

-----------------------------------------------------------------------------
(* Bounds of the inputs. *)

MaxPaths == 3
MaxTimestamp == 1
MaxBufferSize == 10

PathNames == <<"A.mp4", "B.mp4", "missing.mp4", "C.mp4", "D.mp4">>

FilePaths == {PathNames[i] : i \in 1..MaxPaths}

\* The resources of the environment that can be opened.
Openable == FilePaths \ {"missing.mp4"}

Timestamps == (-1)..MaxTimestamp

Bytes == {0, 255}

\* Caller buffers: bufferSize bytes, here filled with one byte value.
Buffers == {[i \in 1..n |-> b] : n \in {0, MaxBufferSize}, b \in Bytes}

NoPath == ""

-----------------------------------------------------------------------------
(* VideoMetadata.  The constructor names only initialized_ in its          *)
(* initializer list, so metadata_ is default-initialized: the two strings  *)
(* are empty and durationMs, frameRate, width and height are indeterminate *)
(* until loadVideo assigns them.                                           *)

IndeterminateDuration == {-1, 0, 7}
IndeterminateFrameRate == {0, 30}
IndeterminateWidth == {-1, 1920}
IndeterminateHeight == {0, 1080}

DefaultInitializedMetadata ==
    {[filePath |-> "", durationMs |-> d, frameRate |-> f,
      width |-> w, height |-> h, codec |-> ""] :
        d \in IndeterminateDuration, f \in IndeterminateFrameRate,
        w \in IndeterminateWidth, h \in IndeterminateHeight}

\* A value-initialized VideoMetadata{}.
BlankMetadata ==
    [filePath |-> "", durationMs |-> 0, frameRate |-> 0,
     width |-> 0, height |-> 0, codec |-> ""]

NoCall == [op |-> "constructor", filePath |-> NoPath, timestampMs |-> 0,
           buffer |-> <<>>, bufferSize |-> 0]

Cout(text) == [stream |-> "cout", text |-> text]
Cerr(text) == [stream |-> "cerr", text |-> text]

-----------------------------------------------------------------------------
(* VideoEngine::VideoEngine() *)

Init ==
    /\ initialized = FALSE
    /\ metadata \in DefaultInitializedMetadata
    /\ call = NoCall
    /\ result = FALSE
    /\ returnedMetadata = BlankMetadata
    /\ returnedVersion = ""
    /\ out = Cout("VideoEngine: Constructor called")
    /\ buffer = <<>>
    /\ everInitialized = FALSE
    /\ loadedPath = NoPath
    /\ previousPath = NoPath
    /\ loadedMeta = BlankMetadata

-----------------------------------------------------------------------------
(* bool VideoEngine::initialize() *)

\* Mutant: no early return, and initialization starts from a blank metadata_.
initialize_Reset ==
    /\ call' = [NoCall EXCEPT !.op = "initialize"]
    /\ out' = Cout("VideoEngine: Initializing...")
    /\ initialized' = TRUE
    /\ metadata' = BlankMetadata
    /\ result' = TRUE
    /\ everInitialized' = TRUE
    /\ UNCHANGED <<returnedMetadata, returnedVersion, buffer,
                   loadedPath, previousPath, loadedMeta>>

initialize ==
    /\ call' = [NoCall EXCEPT !.op = "initialize"]
    /\ IF initialized
         THEN /\ out' = Cout("VideoEngine: Already initialized")
              /\ UNCHANGED initialized
         ELSE /\ out' = Cout("VideoEngine: Initializing...")
              /\ initialized' = TRUE
    /\ result' = TRUE
    /\ everInitialized' = TRUE
    /\ UNCHANGED <<metadata, returnedMetadata, returnedVersion, buffer,
                   loadedPath, previousPath, loadedMeta>>

-----------------------------------------------------------------------------
(* bool VideoEngine::loadVideo(const std::string& filePath) *)

\* Mutant: the file path is not stored.
StoreMetadata_KeepPath(old, filePath) ==
    [old EXCEPT !.durationMs = 0,
                !.frameRate = 30,
                !.width = 1920,
                !.height = 1080,
                !.codec = "h264"]

\* Mutant: the frame size is not assigned.
StoreMetadata_KeepSize(old, filePath) ==
    [old EXCEPT !.filePath = filePath,
                !.durationMs = 0,
                !.frameRate = 30,
                !.codec = "h264"]

\* The six assignments to metadata_ (frameRate 30.0 is kept as the integer 30).
StoreMetadata(old, filePath) ==
    [old EXCEPT !.filePath = filePath,
                !.durationMs = 0,
                !.frameRate = 30,
                !.width = 1920,
                !.height = 1080,
                !.codec = "h264"]

\* Mutant: the initialized_ check is missing.
loadVideo_Unguarded(filePath) ==
    /\ call' = [NoCall EXCEPT !.op = "loadVideo", !.filePath = filePath]
    /\ out' = Cout("VideoEngine: Loading video: " \o filePath)
    /\ metadata' = StoreMetadata(metadata, filePath)
    /\ result' = TRUE
    /\ loadedPath' = filePath
    /\ previousPath' = loadedPath
    /\ loadedMeta' = metadata'
    /\ UNCHANGED <<initialized, returnedMetadata, returnedVersion, buffer,
                   everInitialized>>

\* Mutant: a resource that cannot be opened tears the engine down.
loadVideo_Teardown(filePath) ==
    /\ call' = [NoCall EXCEPT !.op = "loadVideo", !.filePath = filePath]
    /\ IF ~initialized \/ filePath \notin Openable
         THEN /\ out' = Cerr("VideoEngine: Not initialized")
              /\ initialized' = FALSE
              /\ result' = FALSE
              /\ UNCHANGED <<metadata, loadedPath, previousPath, loadedMeta>>
         ELSE /\ out' = Cout("VideoEngine: Loading video: " \o filePath)
              /\ metadata' = StoreMetadata(metadata, filePath)
              /\ result' = TRUE
              /\ loadedPath' = filePath
              /\ previousPath' = loadedPath
              /\ loadedMeta' = metadata'
              /\ UNCHANGED initialized
    /\ UNCHANGED <<returnedMetadata, returnedVersion, buffer, everInitialized>>

loadVideo(filePath) ==
    /\ call' = [NoCall EXCEPT !.op = "loadVideo", !.filePath = filePath]
    /\ IF ~initialized
         THEN /\ out' = Cerr("VideoEngine: Not initialized")
              /\ result' = FALSE
              /\ UNCHANGED <<metadata, loadedPath, previousPath, loadedMeta>>
         ELSE /\ out' = Cout("VideoEngine: Loading video: " \o filePath)
              /\ metadata' = StoreMetadata(metadata, filePath)
              /\ result' = TRUE
              /\ loadedPath' = filePath
              /\ previousPath' = loadedPath
              /\ loadedMeta' = metadata'
    /\ UNCHANGED <<initialized, returnedMetadata, returnedVersion, buffer,
                   everInitialized>>

-----------------------------------------------------------------------------
(* VideoMetadata VideoEngine::getMetadata() const *)

getMetadata ==
    /\ call' = [NoCall EXCEPT !.op = "getMetadata"]
    /\ returnedMetadata' = metadata
    /\ UNCHANGED <<initialized, metadata, result, returnedVersion, out, buffer,
                   everInitialized, loadedPath, previousPath, loadedMeta>>

-----------------------------------------------------------------------------
(* bool VideoEngine::extractFrame(int64_t timestampMs, uint8_t* buffer,    *)
(*                                size_t bufferSize)                       *)

\* Mutant: the requested timestamp is remembered in the metadata.
extractFrame_Seek(timestampMs, buf) ==
    /\ call' = [NoCall EXCEPT !.op = "extractFrame", !.timestampMs = timestampMs,
                              !.buffer = buf, !.bufferSize = Len(buf)]
    /\ buffer' = buf
    /\ IF ~initialized
         THEN /\ out' = Cerr("VideoEngine: Not initialized")
              /\ result' = FALSE
              /\ UNCHANGED metadata
         ELSE /\ out' = Cout("VideoEngine: Extracting frame at "
                              \o ToString(timestampMs) \o "ms")
              /\ metadata' = [metadata EXCEPT !.durationMs = timestampMs]
              /\ result' = TRUE
    /\ UNCHANGED <<initialized, returnedMetadata, returnedVersion,
                   everInitialized, loadedPath, previousPath, loadedMeta>>

\* The body never writes through `buffer`: the caller's bytes come back as passed.
extractFrame(timestampMs, buf) ==
    /\ call' = [NoCall EXCEPT !.op = "extractFrame", !.timestampMs = timestampMs,
                              !.buffer = buf, !.bufferSize = Len(buf)]
    /\ buffer' = buf
    /\ IF ~initialized
         THEN /\ out' = Cerr("VideoEngine: Not initialized")
              /\ result' = FALSE
         ELSE /\ out' = Cout("VideoEngine: Extracting frame at "
                              \o ToString(timestampMs) \o "ms")
              /\ result' = TRUE
    /\ UNCHANGED <<initialized, metadata, returnedMetadata, returnedVersion,
                   everInitialized, loadedPath, previousPath, loadedMeta>>

-----------------------------------------------------------------------------
(* static std::string VideoEngine::getVersion() *)

getVersion ==
    /\ call' = [NoCall EXCEPT !.op = "getVersion"]
    /\ returnedVersion' = "1.0.0"
    /\ UNCHANGED <<initialized, metadata, result, returnedMetadata, out, buffer,
                   everInitialized, loadedPath, previousPath, loadedMeta>>

-----------------------------------------------------------------------------

Next ==
    \/ initialize
    \/ \E filePath \in FilePaths : loadVideo(filePath)
    \/ getMetadata
    \/ \E timestampMs \in Timestamps, buf \in Buffers : extractFrame(timestampMs, buf)
    \/ getVersion

Spec == Init /\ [][Next]_vars

-----------------------------------------------------------------------------
(* Properties. *)

\* A loadVideo call has returned true.
Loaded == loadedPath # NoPath

\* The last call was extractFrame on an engine with a video loaded.
ExtractOnLoaded == call.op = "extractFrame" /\ Loaded

\* C1: while no loadVideo call has succeeded, extractFrame fails (NotLoaded)
\* for every timestamp and every buffer; it never reports success.
C1_ExtractBeforeLoadFails ==
    (call.op = "extractFrame" /\ ~Loaded) => result = FALSE

\* C2: after a successful loadVideo, extractFrame fails (OutOfRange) for every
\* timestampMs outside [0, durationMs) of the stored metadata.
C2_ExtractOutOfRangeFails ==
    (ExtractOnLoaded /\ ~(0 <= call.timestampMs /\ call.timestampMs < metadata.durationMs))
        => result = FALSE

\* C3: loadVideo on an engine on which initialize was never called fails and
\* leaves initialized_ and metadata_ unchanged; every successful loadVideo is
\* preceded by a successful initialize.
C3_LoadBeforeInitializeFails ==
    /\ [][(call'.op = "loadVideo" /\ ~everInitialized)
            => (result' = FALSE /\ engine' = engine /\ loadedPath' = loadedPath)]_vars
    /\ [](Loaded => everInitialized)

C3_Witness ==
    /\ call.op = "loadVideo"
    /\ ~everInitialized
    /\ result = FALSE
    /\ out = Cerr("VideoEngine: Not initialized")

\* C4: loadVideo(path) fails (OpenFailed) whenever the resource at path cannot
\* be opened; the engine is then not Loaded with that path and getMetadata
\* shows no metadata made up for it.
C4_LoadUnopenableFails ==
    (call.op = "loadVideo" /\ call.filePath \notin Openable)
        => (result = FALSE /\ metadata.filePath # call.filePath)

\* C5: after successful loadVideo(A) and later successful loadVideo(B),
\* getMetadata() is the metadata the load of B stored, its path is B, and it
\* is what loading B into a blank struct gives: nothing is carried over.
C5_ReloadReflectsOnlyLast ==
    (call.op = "getMetadata" /\ previousPath # NoPath)
        => /\ returnedMetadata = loadedMeta
           /\ returnedMetadata.filePath = loadedPath
           /\ returnedMetadata = StoreMetadata(BlankMetadata, loadedPath)

C5_Witness ==
    /\ call.op = "getMetadata"
    /\ previousPath # NoPath
    /\ previousPath # loadedPath
    /\ returnedMetadata.filePath = loadedPath

\* C6: on a loaded video, a buffer smaller than one frame (fewer bytes than
\* width*height pixels of at least one byte each) makes extractFrame fail
\* (BufferTooSmall), and the buffer is as it was before the call.
C6_ExtractSmallBufferFails ==
    (ExtractOnLoaded /\ call.bufferSize < metadata.width * metadata.height)
        => (result = FALSE /\ buffer = call.buffer)

\* C7: in every state after a successful loadVideo, the stored metadata has
\* durationMs >= 0, frameRate > 0, width > 0 and height > 0.
C7_MetadataValidAfterLoad ==
    Loaded => /\ metadata.durationMs >= 0
              /\ metadata.frameRate > 0
              /\ metadata.width > 0
              /\ metadata.height > 0

C7_Witness ==
    /\ Loaded
    /\ call.op = "getMetadata"
    /\ returnedMetadata.width = 1920
    /\ returnedMetadata.height = 1080

\* C8: every initialize() returns true and leaves the engine Initialized; it
\* changes nothing but the flag, so a repeated call changes nothing at all and
\* an initialize after a load keeps the loaded metadata.
C8_InitializeIdempotent ==
    [][call'.op = "initialize"
         => /\ result' = TRUE
            /\ initialized' = TRUE
            /\ metadata' = metadata
            /\ (initialized => engine' = engine)]_vars

C8_Witness ==
    /\ call.op = "initialize"
    /\ out = Cout("VideoEngine: Already initialized")
    /\ result = TRUE
    /\ Loaded
    /\ metadata = loadedMeta

\* C9: extractFrame never modifies engine state: initialized_ and metadata_
\* are the same before and after it, whether it succeeds or fails.
C9_ExtractFrameKeepsState ==
    [][call'.op = "extractFrame" => engine' = engine]_vars

C9_Witness ==
    /\ ExtractOnLoaded
    /\ result = TRUE
    /\ metadata = loadedMeta

\* C10: no operation resets initialized_ to false, and once initialize has
\* returned true every later loadVideo returns true.
C10_InitializedMonotone ==
    /\ [][initialized => initialized']_vars
    /\ []((everInitialized /\ call.op = "loadVideo") => result = TRUE)

C10_Witness ==
    /\ everInitialized
    /\ call.op = "loadVideo"
    /\ result = TRUE
    /\ previousPath # NoPath

====
